---- MODULE Spec2Model ----
(***************************************************************************)
(* A model of ytmad.py, the YouTube album downloader: main() and the       *)
(* functions it calls (check_dependencies, get_playlist_info,              *)
(* download_album), with the external yt-dlp process, the operator and     *)
(* the filesystem as the environment.                                      *)
(*                                                                         *)
(* Text that the program inspects character by character (the URL, the     *)
(* answer at the prompt) is a sequence of one-character strings.  A path   *)
(* is the sequence of its components.  One line of the metadata dump is a  *)
(* record saying what json.loads makes of it.                              *)
(*                                                                         *)
(* The yt-dlp binary is assumed not to vanish between the version probe    *)
(* and the later invocations of the same run.                              *)
(***************************************************************************)
EXTENDS Integers, Sequences, FiniteSets, TLC

VARIABLES
    argv,        \* sys.argv: <<program, url, output directory>>, a prefix of it
    dirs0,       \* filesystem: the paths that were directories when the run began
    dirs,        \* filesystem: the paths that are directories
    files,       \* filesystem: the paths that are regular files
    pc,          \* position of main
    depOutcome,  \* how the version probe ended ("none" before it ran)
    probeOutcome,\* how the metadata probe ended ("none" before it ran)
    stdout,      \* the lines the metadata probe wrote
    info,        \* main's info: None, or <<the dict get_playlist_info built>>
    answered,    \* input() returned a line
    response,    \* main's response
    output_dir,  \* main's output_dir
    dlOutcome,   \* how the download subprocess ended ("none" before it ended)
    success,     \* main's success: "unset", "True", "False"
    exitStatus,  \* exit status of the process, -1 while it runs
    exc,         \* the exception that left main unhandled, "none" otherwise
    log          \* history: calls, subprocess launches, prompts and prints, in order

vars == <<argv, dirs0, dirs, files, pc, depOutcome, probeOutcome, stdout, info, answered,
          response, output_dir, dlOutcome, success, exitStatus, exc, log>>

(***************************************************************************)
(* Bounds                                                                  *)
(***************************************************************************)
MaxLines == 3    \* longest metadata dump explored by the parsing specification

(***************************************************************************)
(* Text                                                                    *)
(***************************************************************************)
\* Python's `sub in s` on str
Contains(sub, s) ==
    \E i \in 0..(Len(s) - Len(sub)) : SubSeq(s, i + 1, i + Len(sub)) = sub

LowerChar(c) ==
    CASE c = "Y" -> "y"
      [] c = "E" -> "e"
      [] c = "S" -> "s"
      [] c = "N" -> "n"
      [] c = "O" -> "o"
      [] c = "U" -> "u"
      [] c = "T" -> "t"
      [] c = "B" -> "b"
      [] c = "C" -> "c"
      [] c = "M" -> "m"
      [] OTHER -> c

\* Python's str.lower()
Lower(s) == [i \in 1..Len(s) |-> LowerChar(s[i])]

YOUTUBE_COM == <<"y","o","u","t","u","b","e",".","c","o","m">>
YOUTU_BE    == <<"y","o","u","t","u",".","b","e">>
HTTPS       == <<"h","t","t","p","s",":","/","/">>

UrlPlaylist  == HTTPS \o <<"w","w","w",".">> \o YOUTUBE_COM \o <<"/","p","?","l","=","x">>
UrlShort     == HTTPS \o YOUTU_BE \o <<"/","x">>
UrlBare      == YOUTUBE_COM
UrlLookalike == HTTPS \o <<"e",".","o","r","g","/","?","q","=">> \o YOUTU_BE
UrlVimeo     == HTTPS \o <<"v","i","m","e","o",".","c","o","m","/","1">>
UrlTruncated == HTTPS \o <<"y","o","u","t","u","b","e",".","c","o">>
UrlUpper     == HTTPS \o <<"Y","O","U","T","U","B","E",".","C","O","M">>
UrlComma     == <<"y","o","u","t","u",",","b","e">>
UrlEmpty     == <<>>

Urls == {UrlPlaylist, UrlShort, UrlBare, UrlLookalike, UrlVimeo, UrlTruncated,
         UrlUpper, UrlComma, UrlEmpty}

Responses == { <<"y">>, <<"Y">>, <<"n">>, <<"N">>, <<>>, <<"y","e","s">>,
               <<" ","y"," ">>, <<"Y","E","S">>, <<"y"," ">> }

(***************************************************************************)
(* Filesystem                                                              *)
(***************************************************************************)
Cwd == <<>>
DefaultDir == <<"downloads">>                       \* 'downloads'
DirArgs == { <<"downloads">>, <<"a">>, <<"a","b">> } \* values of sys.argv[2]
Paths == DirArgs

Parent(p) == SubSeq(p, 1, Len(p) - 1)

\* the filesystems a run can start in: every directory's parent is a directory,
\* no path is both a directory and a file, nothing lives under a regular file
Filesystems ==
    { fs \in [d : SUBSET Paths, f : SUBSET {<<"downloads">>, <<"a">>}] :
        /\ fs.d \cap fs.f = {}
        /\ \A p \in fs.d : Parent(p) = Cwd \/ Parent(p) \in fs.d }

\* Path(p).mkdir(exist_ok=True): parents is left at its default, False
mkdir(p, ds, fs) ==
    IF p \in ds                         THEN [exc |-> "none", dirs |-> ds]
    ELSE IF p \in fs                    THEN [exc |-> "FileExistsError", dirs |-> ds]
    ELSE IF Parent(p) \in fs            THEN [exc |-> "NotADirectoryError", dirs |-> ds]
    ELSE IF Parent(p) # Cwd /\ Parent(p) \notin ds
                                        THEN [exc |-> "FileNotFoundError", dirs |-> ds]
    ELSE [exc |-> "none", dirs |-> ds \cup {p}]

(***************************************************************************)
(* History                                                                 *)
(***************************************************************************)
RECURSIVE Count(_, _)
Count(s, e) ==
    IF s = <<>> THEN 0
    ELSE (IF s[1] = e THEN 1 ELSE 0) + Count(Tail(s), e)

Logged(e) == \E i \in 1..Len(log) : log[i] = e

(***************************************************************************)
(* The metadata dump                                                       *)
(***************************************************************************)
Absent == "<absent>"     \* the key is not in the JSON object
Null   == "<null>"       \* JSON null, Python None

TitleValues         == {"t1", "t2"}
IdValues            == {"i1"}
PlaylistTitleValues == {"P1", "P2", Null}

\* '' : skipped by `if line`
EmptyLine     == [kind |-> "empty", title |-> Absent, id |-> Absent, playlist_title |-> Absent]
\* text json.loads rejects
MalformedLine == [kind |-> "malformed", title |-> Absent, id |-> Absent, playlist_title |-> Absent]
\* valid JSON that is no object (a number, null, a string, a list): the key
\* tests or the subscripts of lines 70-76 raise TypeError before any assignment
NonObjectLine == [kind |-> "nonobject", title |-> Absent, id |-> Absent, playlist_title |-> Absent]

RecordLines ==
    [kind : {"record"},
     title : TitleValues \cup {Absent},
     id : IdValues \cup {Absent},
     playlist_title : PlaylistTitleValues \cup {Absent}]

LineValues == {EmptyLine, MalformedLine, NonObjectLine} \cup RecordLines

\* Python truth value of a playlist title
Truthy(v) == v \notin {Null, ""}

\* result.stdout.strip().split('\n'): blank lines at both ends go, and the
\* split of what is left has at least one element
RECURSIVE StripLeft(_)
StripLeft(ls) ==
    IF ls # <<>> /\ Head(ls).kind = "empty" THEN StripLeft(Tail(ls)) ELSE ls

RECURSIVE StripRight(_)
StripRight(ls) ==
    IF ls # <<>> /\ ls[Len(ls)].kind = "empty"
    THEN StripRight(SubSeq(ls, 1, Len(ls) - 1)) ELSE ls

SplitLines(out) ==
    LET s == StripRight(StripLeft(out))
    IN  IF s = <<>> THEN <<EmptyLine>> ELSE s

\* json.loads(line) returns and the result supports the key tests
LoadsOK(line) == line.kind = "record"

\* AppendVideo with `or` for the `and` of line 70
AppendVideo_or(data, videos) ==
    IF data.title # Absent \/ data.id # Absent
    THEN Append(videos, [title |-> data.title, id |-> data.id])
    ELSE videos

\* lines 70-74: the effect of one loaded record on videos
AppendVideo(data, videos) ==
    IF data.title # Absent /\ data.id # Absent
    THEN Append(videos, [title |-> data.title, id |-> data.id])
    ELSE videos

\* SetPlaylistTitle without the `not playlist_title` of line 75
SetPlaylistTitle_last(data, playlist_title) ==
    IF data.playlist_title # Absent
    THEN data.playlist_title
    ELSE playlist_title

\* lines 75-76: the effect of one loaded record on playlist_title
SetPlaylistTitle(data, playlist_title) ==
    IF ~Truthy(playlist_title) /\ data.playlist_title # Absent
    THEN data.playlist_title
    ELSE playlist_title

\* lines 66-78: the loop from line i on
RECURSIVE ParseLoop(_, _, _, _)
ParseLoop(lines, i, videos, playlist_title) ==
    IF i > Len(lines)
    THEN [videos |-> videos, playlist_title |-> playlist_title]
    ELSE LET line == lines[i]
         IN  IF line.kind = "empty"
             THEN ParseLoop(lines, i + 1, videos, playlist_title)
             ELSE IF ~LoadsOK(line)
             THEN ParseLoop(lines, i + 1, videos, playlist_title)
             ELSE ParseLoop(lines, i + 1,
                            AppendVideo(line, videos),
                            SetPlaylistTitle(line, playlist_title))

None == <<>>

\* lines 80-84
BuildInfo(r) ==
    [title  |-> IF Truthy(r.playlist_title) THEN r.playlist_title ELSE "Unknown Playlist",
     count  |-> Len(r.videos),
     videos |-> r.videos]

\* get_playlist_info, given how the metadata probe ended and what it wrote
get_playlist_info(outcome, out) ==
    CASE outcome = "exit0" ->
            [exc |-> "none",
             value |-> <<BuildInfo(ParseLoop(SplitLines(out), 1, <<>>, Null))>>,
             events |-> <<"print:fetching", "run:dump_json">>]
      [] outcome = "nonzero" ->
            [exc |-> "none", value |-> None,
             events |-> <<"print:fetching", "run:dump_json", "print:info_error">>]
      [] OTHER ->
            [exc |-> "KeyboardInterrupt", value |-> None,
             events |-> <<"print:fetching", "run:dump_json">>]

ProbeOutcomes == {"exit0", "nonzero", "interrupt"}

Track(t, i) == [kind |-> "record", title |-> t, id |-> i, playlist_title |-> Absent]

\* the dumps a run of main is explored with
SampleStdouts ==
    { <<>>,
      <<MalformedLine>>,
      <<[kind |-> "record", title |-> "t1", id |-> "i1", playlist_title |-> "P1"]>>,
      <<Track("t1", "i1"), Track("t2", "i1")>> }

(***************************************************************************)
(* main and what it calls                                                  *)
(***************************************************************************)
Program == "ytmad.py"

\* sys.argv[i]
Argv(i) == argv[i + 1]

Argvs ==
    { <<Program>> }
    \cup { <<Program, u>> : u \in Urls }
    \cup { <<Program, u, d>> : u \in Urls, d \in DirArgs }

\* how `yt-dlp --version` can end: exit 0, exit non-zero, no such binary on
\* the path, a binary that may not be executed, the operator's interrupt
DepOutcomes == {"exit0", "nonzero", "notfound", "permission", "interrupt"}

\* check_dependencies with check=True left out of line 25: the exit status of
\* the probe is not looked at
check_dependencies_nocheck(outcome) ==
    CASE outcome = "exit0"      -> [exc |-> "none", value |-> TRUE, prints |-> <<>>]
      [] outcome = "nonzero"    -> [exc |-> "none", value |-> TRUE, prints |-> <<>>]
      [] outcome = "notfound"   -> [exc |-> "none", value |-> FALSE, prints |-> <<"print:no_ytdlp">>]
      [] outcome = "permission" -> [exc |-> "PermissionError", value |-> FALSE, prints |-> <<>>]
      [] OTHER                  -> [exc |-> "KeyboardInterrupt", value |-> FALSE, prints |-> <<>>]

\* lines 20-33
check_dependencies(outcome) ==
    CASE outcome = "exit0"      -> [exc |-> "none", value |-> TRUE, prints |-> <<>>]
      [] outcome = "nonzero"    -> [exc |-> "none", value |-> FALSE, prints |-> <<"print:no_ytdlp">>]
      [] outcome = "notfound"   -> [exc |-> "none", value |-> FALSE, prints |-> <<"print:no_ytdlp">>]
      [] outcome = "permission" -> [exc |-> "PermissionError", value |-> FALSE, prints |-> <<>>]
      [] OTHER                  -> [exc |-> "KeyboardInterrupt", value |-> FALSE, prints |-> <<>>]

\* UrlAccepted with the second `not` of line 151 dropped
UrlAccepted_dropnot(u) == ~(~Contains(YOUTUBE_COM, u) /\ Contains(YOUTU_BE, u))

\* line 151, negated: the URL passes the check
UrlAccepted(u) == ~(~Contains(YOUTUBE_COM, u) /\ ~Contains(YOUTU_BE, u))

\* InfoTrue as `if info and info['count']:`
InfoTrue_count(i) == i # None /\ i[1].count > 0

\* line 158, `if info:` - a dict of three keys is true, None is false
InfoTrue(i) == i # None

\* Affirmative as `response.lower() == 'n'` being the only refusal
Affirmative_notn(r) == ~(Lower(r) = <<"n">>)

\* line 164, negated: the answer lets the download start
Affirmative(r) == ~(Lower(r) # <<"y">>)

\* how the wait for the download subprocess can end
DownloadOutcomes == {"exit0", "nonzero", "interrupt"}

\* DownloadReturn with the KeyboardInterrupt handler of lines 126-128 returning True
DownloadReturn_interrupt(outcome) ==
    CASE outcome = "exit0"   -> [value |-> TRUE,  prints |-> <<"print:download_complete">>]
      [] outcome = "nonzero" -> [value |-> FALSE, prints |-> <<"print:download_error">>]
      [] OTHER               -> [value |-> TRUE,  prints |-> <<"print:download_interrupted">>]

\* lines 115-128: what download_album returns and prints
DownloadReturn(outcome) ==
    CASE outcome = "exit0"   -> [value |-> TRUE,  prints |-> <<"print:download_complete">>]
      [] outcome = "nonzero" -> [value |-> FALSE, prints |-> <<"print:download_error">>]
      [] OTHER               -> [value |-> FALSE, prints |-> <<"print:download_interrupted">>]

\* Report without the sys.exit(1) of line 181
Report_noexit(ok) ==
    IF ok THEN [status |-> 0, prints |-> <<"print:done">>]
    ELSE [status |-> 0, prints |-> <<"print:done_with_errors">>]

\* lines 177-181: the message and the exit status after download_album returned
Report(ok) ==
    IF ok THEN [status |-> 0, prints |-> <<"print:done">>]
    ELSE [status |-> 1, prints |-> <<"print:done_with_errors">>]

\* an exception leaves main: the interpreter prints the traceback and ends
\* the process, with status 1, or as killed by the interrupt (130)
StatusOfException(e) == IF e = "KeyboardInterrupt" THEN 130 ELSE 1

Init ==
    /\ argv \in Argvs
    /\ \E fs \in Filesystems : dirs0 = fs.d /\ dirs = fs.d /\ files = fs.f
    /\ pc = "check_dependencies"
    /\ depOutcome = "none"
    /\ probeOutcome = "none"
    /\ stdout = <<>>
    /\ info = None
    /\ answered = FALSE
    /\ response = <<>>
    /\ output_dir = <<>>
    /\ dlOutcome = "none"
    /\ success = "unset"
    /\ exitStatus = -1
    /\ exc = "none"
    /\ log = <<>>

\* sys.exit(status)
Exit(status, events) ==
    /\ pc' = "done"
    /\ exitStatus' = status
    /\ exc' = "none"
    /\ log' = log \o events

\* exception e propagates out of main
Raise(e, events) ==
    /\ pc' = "done"
    /\ exitStatus' = StatusOfException(e)
    /\ exc' = e
    /\ log' = log \o events \o <<"print:traceback">>

\* lines 131-137
CheckDependencies ==
    /\ pc = "check_dependencies"
    /\ \E o \in DepOutcomes :
         LET r == check_dependencies(o)
             ev == <<"print:banner", "run:version">> \o r.prints
         IN  /\ depOutcome' = o
             /\ IF r.exc # "none" THEN Raise(r.exc, ev)
                ELSE IF ~r.value THEN Exit(1, ev)
                ELSE /\ pc' = "argv"
                     /\ log' = log \o ev
                     /\ UNCHANGED <<exitStatus, exc>>
    /\ UNCHANGED <<argv, dirs0, dirs, files, probeOutcome, stdout, info, answered,
                   response, output_dir, dlOutcome, success>>

\* lines 140-146
CheckArguments ==
    /\ pc = "argv"
    /\ IF Len(argv) < 2 THEN Exit(1, <<"print:usage">>)
       ELSE /\ pc' = "url"
            /\ UNCHANGED <<exitStatus, exc, log>>
    /\ UNCHANGED <<argv, dirs0, dirs, files, depOutcome, probeOutcome, stdout, info,
                   answered, response, output_dir, dlOutcome, success>>

\* lines 148-153
CheckUrl ==
    /\ pc = "url"
    /\ IF ~UrlAccepted(Argv(1)) THEN Exit(1, <<"print:bad_url">>)
       ELSE /\ pc' = "inspect"
            /\ UNCHANGED <<exitStatus, exc, log>>
    /\ UNCHANGED <<argv, dirs0, dirs, files, depOutcome, probeOutcome, stdout, info,
                   answered, response, output_dir, dlOutcome, success>>

\* lines 156-163: the call of get_playlist_info, the summary, and input()
\* showing the prompt
Inspect ==
    /\ pc = "inspect"
    /\ \E o \in ProbeOutcomes, out \in SampleStdouts :
         LET r == get_playlist_info(o, IF o = "exit0" THEN out ELSE <<>>)
             ev == <<"call:get_playlist_info">> \o r.events
         IN  /\ probeOutcome' = o
             /\ stdout' = IF o = "exit0" THEN out ELSE <<>>
             /\ info' = r.value
             /\ IF r.exc # "none" THEN Raise(r.exc, ev)
                ELSE IF InfoTrue(r.value)
                THEN /\ pc' = "confirm"
                     /\ log' = log \o ev \o <<"print:summary", "prompt">>
                     /\ UNCHANGED <<exitStatus, exc>>
                ELSE /\ pc' = "output_dir"
                     /\ log' = log \o ev
                     /\ UNCHANGED <<exitStatus, exc>>
    /\ UNCHANGED <<argv, dirs0, dirs, files, depOutcome, answered, response, output_dir,
                   dlOutcome, success>>

\* lines 163-166: input() ends, as the operator types a line, closes the
\* input, or interrupts
Confirm ==
    /\ pc = "confirm"
    /\ \/ \E r \in Responses :
            /\ answered' = TRUE
            /\ response' = r
            /\ IF ~Affirmative(r) THEN Exit(0, <<"print:cancelled">>)
               ELSE /\ pc' = "output_dir"
                    /\ UNCHANGED <<exitStatus, exc, log>>
       \/ \E e \in {"EOFError", "KeyboardInterrupt"} :
            /\ Raise(e, <<>>)
            /\ UNCHANGED <<answered, response>>
    /\ UNCHANGED <<argv, dirs0, dirs, files, depOutcome, probeOutcome, stdout, info,
                   output_dir, dlOutcome, success>>

\* lines 169-175 and 94-117: output_dir is chosen, download_album is called,
\* makes the directory and launches the download
StartDownload ==
    /\ pc = "output_dir"
    /\ LET d == IF Len(argv) >= 3 THEN Argv(2) ELSE DefaultDir
           m == mkdir(d, dirs, files)
       IN  /\ output_dir' = d
           /\ dirs' = m.dirs
           /\ IF m.exc # "none"
              THEN Raise(m.exc, <<"call:download_album", "mkdir">>)
              ELSE /\ pc' = "wait"
                   /\ log' = log \o <<"call:download_album", "mkdir",
                                      "print:starting", "run:download">>
                   /\ UNCHANGED <<exitStatus, exc>>
    /\ UNCHANGED <<argv, dirs0, files, depOutcome, probeOutcome, stdout, info, answered,
                   response, dlOutcome, success>>

\* lines 117-128 and 177-181: the download ends, download_album returns,
\* main reports and ends
FinishDownload ==
    /\ pc = "wait"
    /\ \E o \in DownloadOutcomes :
         LET r == DownloadReturn(o)
             rep == Report(r.value)
         IN  /\ dlOutcome' = o
             /\ success' = IF r.value THEN "True" ELSE "False"
             /\ Exit(rep.status, r.prints \o rep.prints)
    /\ UNCHANGED <<argv, dirs0, dirs, files, depOutcome, probeOutcome, stdout, info,
                   answered, response, output_dir>>

Next ==
    \/ CheckDependencies
    \/ CheckArguments
    \/ CheckUrl
    \/ Inspect
    \/ Confirm
    \/ StartDownload
    \/ FinishDownload

Spec == Init /\ [][Next]_vars

\* main is sequential code: between get_playlist_info and download_album it
\* waits for nothing but the prompt, so the call of download_album, once it is
\* the next statement, happens
FairSpec == Spec /\ WF_vars(StartDownload)

(***************************************************************************)
(* get_playlist_info on its own: one call, on any dump of at most MaxLines *)
(* lines                                                                   *)
(***************************************************************************)
InitParse ==
    /\ argv = <<Program, UrlPlaylist>>
    /\ dirs0 = {}
    /\ dirs = {}
    /\ files = {}
    /\ pc = "get_playlist_info"
    /\ depOutcome = "exit0"
    /\ probeOutcome = "none"
    /\ stdout = <<>>
    /\ info = None
    /\ answered = FALSE
    /\ response = <<>>
    /\ output_dir = <<>>
    /\ dlOutcome = "none"
    /\ success = "unset"
    /\ exitStatus = -1
    /\ exc = "none"
    /\ log = <<>>

\* lines 48-88, called once
CallGetPlaylistInfo ==
    /\ pc = "get_playlist_info"
    /\ \E o \in ProbeOutcomes, k \in 0..MaxLines : \E out \in [1..k -> LineValues] :
         /\ o # "exit0" => out = <<>>
         /\ LET r == get_playlist_info(o, out)
            IN  /\ probeOutcome' = o
                /\ stdout' = out
                /\ info' = r.value
                /\ exc' = r.exc
                /\ log' = log \o <<"call:get_playlist_info">> \o r.events
                /\ pc' = IF r.exc = "none" THEN "returned" ELSE "raised"
    /\ UNCHANGED <<argv, dirs0, dirs, files, depOutcome, answered, response, output_dir,
                   dlOutcome, success, exitStatus>>

NextParse == CallGetPlaylistInfo

SpecParse == InitParse /\ [][NextParse]_vars

(***************************************************************************)
(* Properties of get_playlist_info (checked under SpecParse)               *)
(***************************************************************************)
Returned == pc = "returned" /\ probeOutcome = "exit0"

HasBoth(l) == l.kind = "record" /\ l.title # Absent /\ l.id # Absent

CarriesPlaylistTitle(l) == l.kind = "record" /\ l.playlist_title # Absent

\* the (title, id) pairs of the records that carry both, in line order
ExpectedVideos(out) ==
    LET both == SelectSeq(out, HasBoth)
    IN  [k \in 1..Len(both) |-> [title |-> both[k].title, id |-> both[k].id]]

\* C2: the track list get_playlist_info returns is exactly the (title, id)
\* pairs of the well-formed records carrying both fields, in line order, and
\* count is its length; empty, malformed and incomplete lines contribute
\* nothing and do not abort the call.
C2_TracksAreTheCompleteRecords ==
    (pc # "get_playlist_info" /\ probeOutcome = "exit0") =>
        /\ pc = "returned"
        /\ exc = "none"
        /\ info # None
        /\ info[1].videos = ExpectedVideos(stdout)
        /\ info[1].count = Len(ExpectedVideos(stdout))

\* a dump with a malformed line, an incomplete record and a complete record
\* after them
C2_Witness ==
    /\ Returned
    /\ \E i, j, k \in 1..Len(stdout) :
         /\ i < k /\ j < k
         /\ stdout[i].kind \in {"malformed", "nonobject"}
         /\ stdout[j].kind = "record" /\ stdout[j].title # Absent /\ stdout[j].id = Absent
         /\ HasBoth(stdout[k])
    /\ info[1].count = 1

\* the first line of the dump that satisfies P, 0 if there is none
FirstLine(out, P(_)) ==
    IF \E i \in 1..Len(out) : P(out[i])
    THEN CHOOSE i \in 1..Len(out) : P(out[i]) /\ \A j \in 1..(i - 1) : ~P(out[j])
    ELSE 0

\* C3 as stated: the playlist title is the playlist-title value of the first
\* record carrying the field, whatever the value, and "Unknown Playlist" if no
\* record carries it.
C3_TitleOfFirstCarrier ==
    Returned =>
        LET f == FirstLine(stdout, CarriesPlaylistTitle)
        IN  info[1].title = IF f = 0 THEN "Unknown Playlist" ELSE stdout[f].playlist_title

NamesPlaylist(l) == CarriesPlaylistTitle(l) /\ l.playlist_title \notin {"", Null}

\* C3 amended: the playlist title is the playlist-title value of the first
\* record whose playlist-title field is neither empty nor null (with or without
\* title and id); later records never override it; if there is no such record
\* the title is "Unknown Playlist".
C3_TitleOfFirstNonEmptyCarrier ==
    Returned =>
        LET f == FirstLine(stdout, NamesPlaylist)
        IN  info[1].title = IF f = 0 THEN "Unknown Playlist" ELSE stdout[f].playlist_title

\* a null playlist title first, then two records with different titles of
\* which the first lacks title and id
C3_Witness ==
    /\ Returned
    /\ Len(stdout) >= 3
    /\ stdout[1].kind = "record" /\ stdout[1].playlist_title = Null
    /\ NamesPlaylist(stdout[2]) /\ ~HasBoth(stdout[2])
    /\ NamesPlaylist(stdout[3])
    /\ stdout[3].playlist_title # stdout[2].playlist_title
    /\ info[1].title = stdout[2].playlist_title

(***************************************************************************)
(* Properties of main (checked under Spec, C5 under FairSpec)              *)
(***************************************************************************)
LacksBothDomains(u) == ~Contains(YOUTUBE_COM, u) /\ ~Contains(YOUTU_BE, u)

DependencyFound == depOutcome = "exit0"

SaidYes == response \in { <<"y">>, <<"Y">> }

\* C1: with yt-dlp found and a URL argument that contains neither
\* "youtube.com" nor "youtu.be", get_playlist_info and download_album are
\* never called, no subprocess but the version probe runs, no prompt is
\* shown, and the run ends with exit status 1.
C1_ForeignUrlExits1 ==
    (DependencyFound /\ Len(argv) >= 2 /\ LacksBothDomains(Argv(1))) =>
        /\ ~Logged("call:get_playlist_info")
        /\ ~Logged("run:dump_json")
        /\ ~Logged("prompt")
        /\ ~Logged("call:download_album")
        /\ ~Logged("run:download")
        /\ pc \in {"argv", "url", "done"}
        /\ pc = "done" => (exitStatus = 1 /\ exc = "none" /\ Logged("print:bad_url"))

\* the run with the truncated domain has ended
C1_Witness ==
    /\ pc = "done"
    /\ DependencyFound
    /\ Len(argv) = 3
    /\ Argv(1) = UrlTruncated
    /\ exitStatus = 1

\* C4: once the prompt is answered with anything but exactly "y" or "Y", the
\* run has ended with exit status 0, download_album was not called, no
\* download ran, and no directory was made.
C4_RefusalExits0 ==
    (answered /\ ~SaidYes) =>
        /\ pc = "done"
        /\ exitStatus = 0
        /\ exc = "none"
        /\ Logged("print:cancelled")
        /\ ~Logged("call:download_album")
        /\ ~Logged("mkdir")
        /\ ~Logged("run:download")
        /\ dirs = dirs0

\* "y" between spaces was typed, the output directory is missing
C4_Witness ==
    /\ answered
    /\ response = <<" ", "y", " ">>
    /\ pc = "done"
    /\ info # None
    /\ DefaultDir \notin dirs
    /\ Len(argv) = 2

\* what C5 says of every state: after a metadata probe that exited non-zero
\* info is None, no prompt was shown and main is at the download or past it;
\* after a probe that exited with 0, info is a result and the prompt was shown
C5_PromptIffInfo ==
    /\ probeOutcome = "nonzero" =>
          /\ info = None
          /\ ~Logged("prompt")
          /\ pc \in {"output_dir", "wait", "done"}
          /\ pc \in {"wait", "done"} => Logged("call:download_album")
    /\ probeOutcome = "exit0" =>
          /\ info # None
          /\ Count(log, "prompt") = 1

\* C5: when the metadata probe exits non-zero, get_playlist_info returns
\* None, the prompt is never shown and main goes on to call download_album;
\* when get_playlist_info returns a result, with count 0 too, the prompt is
\* shown.
C5_FailedProbeSkipsPrompt ==
    /\ []C5_PromptIffInfo
    /\ (probeOutcome = "nonzero") ~> Logged("call:download_album")

\* the probe failed and the download ran
C5_Witness ==
    /\ probeOutcome = "nonzero"
    /\ info = None
    /\ ~Logged("prompt")
    /\ Logged("run:download")
    /\ pc = "done"

\* C6: when the download exits non-zero or is interrupted, download_album
\* returns False and nothing is raised, main prints the failure and exits
\* with status 1, and the download was launched once.
C6_FailedDownloadExits1 ==
    dlOutcome \in {"nonzero", "interrupt"} =>
        /\ pc = "done"
        /\ success = "False"
        /\ exc = "none"
        /\ exitStatus = 1
        /\ Logged("print:done_with_errors")
        /\ Count(log, "call:download_album") = 1
        /\ Count(log, "run:download") = 1

\* the operator interrupted the download
C6_Witness ==
    /\ dlOutcome = "interrupt"
    /\ pc = "done"
    /\ Logged("print:download_interrupted")

\* no regular file is where the output directory or one of its parents should be
NoFileInTheWay(p) == \A k \in 1..Len(p) : SubSeq(p, 1, k) \notin files

\* C7: whatever the output directory (the default, a nested path with missing
\* parents, a directory that exists), once download_album was called the
\* directory exists and nothing was raised, and it exists when the download
\* is launched.
C7_OutputDirMade ==
    (Logged("call:download_album") /\ NoFileInTheWay(output_dir)) =>
        /\ output_dir \in dirs
        /\ exc = "none"
        /\ Logged("run:download")

\* C8: when yt-dlp is absent or its version probe exits non-zero, the run
\* has ended with exit status 1 and all it did was print the banner, run the
\* probe and print the install instructions: nothing was made, asked or run.
C8_MissingDependencyExits1 ==
    depOutcome \in {"notfound", "nonzero"} =>
        /\ pc = "done"
        /\ exitStatus = 1
        /\ exc = "none"
        /\ log = <<"print:banner", "run:version", "print:no_ytdlp">>
        /\ probeOutcome = "none"
        /\ ~answered
        /\ dlOutcome = "none"
        /\ dirs = dirs0

\* the probe exited non-zero in a run with a good URL and an output directory
C8_Witness ==
    /\ depOutcome = "nonzero"
    /\ pc = "done"
    /\ Len(argv) = 3
    /\ Argv(1) = UrlPlaylist
    /\ Argv(2) \notin dirs

Declined == answered /\ ~SaidYes

ListedFailure ==
    \/ depOutcome \in {"notfound", "nonzero"}
    \/ DependencyFound /\ Len(argv) < 2
    \/ DependencyFound /\ Len(argv) >= 2 /\ LacksBothDomains(Argv(1))
    \/ dlOutcome \in {"nonzero", "interrupt"}

\* C9: a run that ended has exit status 0 exactly if the download exited with
\* 0 or the operator declined at the prompt; a run that ended for a missing
\* dependency, a missing URL argument, a foreign URL or a failed download has
\* exit status 1.
C9_ExitStatus ==
    pc = "done" =>
        /\ exitStatus = 0 <=> (dlOutcome = "exit0" \/ Declined)
        /\ ListedFailure => exitStatus = 1

\* a download that failed after the operator said yes
C9_Witness ==
    /\ pc = "done"
    /\ answered /\ SaidYes
    /\ dlOutcome = "nonzero"
    /\ exitStatus = 1

\* C10: no failure of a step (the dependency probe cannot be launched or
\* exits non-zero, an argument is missing, the URL is foreign, the metadata
\* probe fails, a line is malformed, the input ends at the prompt, the output
\* directory cannot be made, the download fails or is interrupted) leaves
\* main as an unhandled exception.  (An interrupt during the first three
\* waits is no such failure.)
C10_NoUnhandledException ==
    exc \in {"none", "KeyboardInterrupt"}

====
